---- MODULE Spec2Model ----
(***************************************************************************)
(* A model of ts-dom-helper (src/src/index.ts, src/unnamed/part_001):      *)
(* element normalisation (elementMap), the query helpers, the visibility   *)
(* helpers and the two timer-driven fade animations.                       *)
(*                                                                         *)
(* Opacity is a JavaScript double in the source.  The model keeps it in    *)
(* fixed point, in units of 1/20: every start value and target the model   *)
(* draws lies on that grid, and on it ((x * 10) + 1) / 10 and              *)
(* ((x * 10) - 1) / 10 are exact in IEEE-754 doubles, so a tick adds or    *)
(* subtracts exactly Step units.                                           *)
(***************************************************************************)
EXTENDS Integers, Sequences, FiniteSets, TLC

VARIABLES
    doc,        \* the document: for each node its parent, tag, id and innerHTML
    classList,  \* element.classList of each node, an ordered set of tokens
    opacity,    \* element.style.opacity of each node (Unset when "")
    timers,     \* the interval timers created by setInterval, in creation order
    call,       \* the operation that ran last, with its arguments
    ret,        \* what that operation returned or threw
    invoked     \* the arguments the callback received during the last query, in order

vars == <<doc, classList, opacity, timers, call, ret, invoked>>

----------------------------------------------------------------------------
(* Bounds of the model *)

MaxTimers == 2      \* interval timers ever created in one behaviour
MaxItems == 2       \* length of an array / node list handed to an operation
MaxFull == 1        \* interval timers ever created in one behaviour of SpecFull

(* Program constants, in units of 1/20 of opacity *)

One == 20           \* the upper clamp of toOpacity, 1
Step == 2           \* the 0.1 a tick adds or subtracts

----------------------------------------------------------------------------
(* The document *)

Body == 0
Nodes == {1, 2, 3}
NodeOrder == <<1, 2, 3>>          \* document order
Null == [type |-> "null"]

HiddenClass == "d-none"
Classes == {HiddenClass, "box"}

Unset == -1                       \* style.opacity = ""

Tags == {"div", "template"}
Ids == {"", "t1"}
Selectors == {"div", "template", "#t1", "#t2"}

\* A template's innerHTML: literal text and ${name} substitutions
Lit(s) == [lit |-> s]
Sub(n) == [sub |-> n]
Htmls == {<<Lit("Hello")>>, <<Lit("Hello, "), Sub("name"), Lit("!")>>}
ParamSets == {<<>>, [name |-> "World"]}

RECURSIVE IsDescendant(_, _, _)
IsDescendant(d, n, scope) ==
    /\ d[n].parent # n
    /\ \/ d[n].parent = scope
       \/ d[n].parent \in Nodes /\ IsDescendant(d, d[n].parent, scope)

Matches(d, selector, n) ==
    \/ selector = d[n].tag
    \/ d[n].id # "" /\ selector = "#" \o d[n].id

\* fromElement.querySelectorAll(selector): the matching descendants, in document order
QuerySelectorAll(d, selector, fromElement) ==
    LET Hit(n) == IsDescendant(d, n, fromElement) /\ Matches(d, selector, n)
    IN  SelectSeq(NodeOrder, Hit)

\* fromElement.querySelector(selector): the first of them, or null
QuerySelector(d, selector, fromElement) ==
    LET all == QuerySelectorAll(d, selector, fromElement)
    IN  IF all = <<>> THEN Null ELSE [type |-> "node", node |-> all[1]]

----------------------------------------------------------------------------
(* The polymorphic "elements" argument *)

NodeTarget(n) == [type |-> "node", node |-> n]
SelectorTarget(s) == [type |-> "selector", selector |-> s]
IterableTarget(items) == [type |-> "iterable", items |-> items]
OtherTarget == [type |-> "other"]      \* null, undefined, a number, a plain object

ItemSeqs == UNION {[1..k -> Nodes] : k \in 0..MaxItems}

Targets ==
    {NodeTarget(n) : n \in Nodes}
        \cup {SelectorTarget(s) : s \in Selectors}
        \cup {IterableTarget(q) : q \in ItemSeqs}
        \cup {OtherTarget}

InstanceofElement(elements) == elements.type = "node"

isIterable(elements) == elements.type = "iterable"

find(d, selector, fromElement) == QuerySelector(d, selector, fromElement)

findAll(d, selector, fromElement) == QuerySelectorAll(d, selector, fromElement)

\* a normalisation that resolves a selector to its first match only
iterableElementsFirst(d, elements) ==
    IF elements.type = "selector"
    THEN (IF find(d, elements.selector, Body) = Null THEN <<>>
          ELSE <<find(d, elements.selector, Body).node>>)
    ELSE IF isIterable(elements) THEN elements.items
    ELSE <<>>

\* the sequence elementMap iterates over when elements is not a single node
iterableElements(d, elements) ==
    IF elements.type = "selector" THEN findAll(d, elements.selector, Body)
    ELSE IF isIterable(elements) THEN elements.items
    ELSE <<>>

\* the nodes elementMap hands to its callback, in order
elementMapArgs(d, elements) ==
    IF InstanceofElement(elements) THEN <<elements.node>>
    ELSE iterableElements(d, elements)

\* elementMap(elements, callback), the callback given as its result for each node
elementMap(d, elements, callback) ==
    LET args == elementMapArgs(d, elements)
    IN  [i \in 1..Len(args) |-> callback[args[i]]]

----------------------------------------------------------------------------
(* Visibility helpers *)

Has(cl, c) == \E i \in 1..Len(cl) : cl[i] = c

\* DOMTokenList.add: append the token unless it is there
TokenAdd(cl, c) == IF Has(cl, c) THEN cl ELSE Append(cl, c)

\* DOMTokenList.remove: drop the token
TokenRemove(cl, c) == LET Keep(x) == x # c IN SelectSeq(cl, Keep)

hideElement(cls, n) == [cls EXCEPT ![n] = TokenAdd(@, HiddenClass)]

\* a show that toggles the class instead of removing it
showToggles(cls, n) ==
    [cls EXCEPT ![n] = IF Has(@, HiddenClass) THEN TokenRemove(@, HiddenClass)
                       ELSE Append(@, HiddenClass)]

showElement(cls, n) == [cls EXCEPT ![n] = TokenRemove(@, HiddenClass)]

RECURSIVE hideEach(_, _)
hideEach(cls, args) ==
    IF args = <<>> THEN cls ELSE hideEach(hideElement(cls, Head(args)), Tail(args))

RECURSIVE showEach(_, _)
showEach(cls, args) ==
    IF args = <<>> THEN cls ELSE showEach(showElement(cls, Head(args)), Tail(args))

\* a hide that does nothing
hideSkipped(d, cls, element) == cls

\* hide(element): the class lists after the call
hide(d, cls, element) ==
    IF ~InstanceofElement(element)
    THEN hideEach(cls, elementMapArgs(d, element))
    ELSE hideElement(cls, element.node)

\* a show that does nothing
showSkipped(d, cls, element) == cls

\* show(element): the class lists after the call
show(d, cls, element) ==
    IF ~InstanceofElement(element)
    THEN showEach(cls, elementMapArgs(d, element))
    ELSE showElement(cls, element.node)

Undefined == [kind |-> "undefined"]

Hide(element) ==
    /\ classList' = hide(doc, classList, element)
    /\ call' = [op |-> "hide", target |-> element]
    /\ ret' = Undefined
    /\ UNCHANGED <<doc, opacity, timers, invoked>>

Show(element) ==
    /\ classList' = show(doc, classList, element)
    /\ call' = [op |-> "show", target |-> element]
    /\ ret' = Undefined
    /\ UNCHANGED <<doc, opacity, timers, invoked>>

----------------------------------------------------------------------------
(* Fade animations *)

\* parseFloat(element.style.opacity) || 0
parseOpacity(s) == IF s = Unset THEN 0 ELSE s

\* a clamp that forgets the upper bound
clampLowerOnly(toOpacity) == IF toOpacity < 0 THEN 0 ELSE toOpacity

\* toOpacity > 1 ? 1 : toOpacity, then toOpacity < 0 ? 0 : toOpacity
clampToOpacity(toOpacity) ==
    LET upper == IF toOpacity > One THEN One ELSE toOpacity
    IN  IF upper < 0 THEN 0 ELSE upper

\* the closure of one single-node fade: its local opacity, its target and its interval timer
newTimer(kind, ops, n, toOpacity) ==
    [kind |-> kind,
     node |-> n,
     opacity |-> parseOpacity(ops[n]),
     toOpacity |-> clampToOpacity(toOpacity),
     active |-> TRUE,
     resolved |-> 0,
     start |-> parseOpacity(ops[n])]

\* the timers a fade call creates: one for a single node, else one per element elementMap visits
fadeTimers(kind, d, ops, element, toOpacity) ==
    LET start == [n \in Nodes |-> newTimer(kind, ops, n, toOpacity)]
    IN  IF ~InstanceofElement(element)
        THEN elementMap(d, element, start)
        ELSE <<start[element.node]>>

\* a collection fade that hands back the first node's pending promise
fadeReturnAwaitsTimer(element, timerId) ==
    [kind |-> "promise", resolved |-> FALSE, timer |-> timerId]

\* the promise a fade call returns: Promise.resolve() for a collection, else the timer's promise
fadeReturn(element, timerId) ==
    IF ~InstanceofElement(element)
    THEN [kind |-> "promise", resolved |-> TRUE, timer |-> 0]
    ELSE [kind |-> "promise", resolved |-> FALSE, timer |-> timerId]

Fade(kind, element, toOpacity) ==
    LET started == fadeTimers(kind, doc, opacity, element, toOpacity)
    IN  /\ Len(timers) + Len(elementMapArgs(doc, element)) <= MaxTimers   \* the model's cap
        /\ timers' = timers \o started
        /\ call' = [op |-> kind,
                    single |-> InstanceofElement(element),
                    args |-> elementMapArgs(doc, element),
                    timersBefore |-> Len(timers)]
        /\ ret' = fadeReturn(element, Len(timers) + 1)
        /\ UNCHANGED <<doc, classList, opacity, invoked>>

FadeIn(element, toOpacity) == Fade("fadeIn", element, toOpacity)

FadeOut(element, toOpacity) == Fade("fadeOut", element, toOpacity)

fadeInStep(op) == op + Step

fadeOutStep(op) == op - Step

fadeInDone(op, toOpacity) == op > toOpacity

fadeOutDone(op, toOpacity) == op < toOpacity

\* resolve() without clearInterval(timerId)
settleKeepsTimer(t, op) == [t EXCEPT !.opacity = op, !.resolved = @ + 1]

\* resolve(); clearInterval(timerId)
settle(t, op) ==
    [t EXCEPT !.opacity = op, !.resolved = @ + 1, !.active = FALSE]

\* the tick goes on: only the closure's opacity moves
advance(t, op) == [t EXCEPT !.opacity = op]

\* The period of a timer (delay) is not part of the state: callers choose it per call,
\* so the callbacks of different timers may run in any order.

\* one run of fadeIn's setInterval callback
FadeInTick(i) ==
    /\ i \in 1..Len(timers)
    /\ timers[i].kind = "fadeIn"
    /\ timers[i].active
    /\ LET t == timers[i]
           op == fadeInStep(t.opacity)
           shown == IF t.toOpacity > 0 THEN show(doc, classList, NodeTarget(t.node))
                    ELSE classList
       IN  /\ classList' = shown
           /\ IF fadeInDone(op, t.toOpacity)
              THEN /\ timers' = [timers EXCEPT ![i] = settle(t, op)]
                   /\ UNCHANGED opacity
              ELSE /\ timers' = [timers EXCEPT ![i] = advance(t, op)]
                   /\ opacity' = [opacity EXCEPT ![t.node] = op]
    /\ call' = [op |-> "tick"]
    /\ ret' = Undefined
    /\ UNCHANGED <<doc, invoked>>

\* one run of fadeOut's setInterval callback
FadeOutTick(i) ==
    /\ i \in 1..Len(timers)
    /\ timers[i].kind = "fadeOut"
    /\ timers[i].active
    /\ LET t == timers[i]
           op == fadeOutStep(t.opacity)
       IN  IF fadeOutDone(op, t.toOpacity)
           THEN /\ timers' = [timers EXCEPT ![i] = settle(t, op)]
                /\ classList' = hide(doc, classList, NodeTarget(t.node))
                /\ UNCHANGED opacity
           ELSE /\ timers' = [timers EXCEPT ![i] = advance(t, op)]
                /\ opacity' = [opacity EXCEPT ![t.node] = op]
                /\ UNCHANGED classList
    /\ call' = [op |-> "tick"]
    /\ ret' = Undefined
    /\ UNCHANGED <<doc, invoked>>

----------------------------------------------------------------------------
(* Concurrent fades: a fixed document, any visibility and a low stored opacity to     *)
(* start from, targets that keep a fade within a few ticks, any interleaving of the  *)
(* timers.  The full-length fades are in SpecFull below.                             *)

FadeDoc ==
    [n \in Nodes |->
        [parent |-> Body,
         tag |-> IF n = 3 THEN "template" ELSE "div",
         id |-> IF n = 3 THEN "t1" ELSE "",
         html |-> <<Lit("Hello")>>]]

InitOpacities == {Unset, 3}
FadeInTargets == {-2, 5}
FadeOutTargets == {0, One + 4}
FadeNodes == {1, 2}
FadeTargets ==
    {NodeTarget(n) : n \in FadeNodes}
        \cup {SelectorTarget("div"), SelectorTarget("#t2"), OtherTarget}
        \cup {IterableTarget(q) : q \in UNION {[1..k -> FadeNodes] : k \in 0..MaxItems}}

NoCall == [op |-> "none"]

\* node 1 starts hidden, the others visible
Init ==
    /\ doc = FadeDoc
    /\ classList = [n \in Nodes |-> IF n = 1 THEN <<HiddenClass>> ELSE <<>>]
    /\ \E o \in InitOpacities :
          opacity = [n \in Nodes |-> IF n \in FadeNodes THEN o ELSE Unset]
    /\ timers = <<>>
    /\ call = NoCall
    /\ ret = Undefined
    /\ invoked = <<>>

Next ==
    \/ \E element \in FadeTargets, toOpacity \in FadeInTargets : FadeIn(element, toOpacity)
    \/ \E element \in FadeTargets, toOpacity \in FadeOutTargets : FadeOut(element, toOpacity)
    \/ \E i \in 1..MaxTimers : FadeInTick(i)
    \/ \E i \in 1..MaxTimers : FadeOutTick(i)

Spec == Init /\ [][Next]_vars

\* some timer that is not cleared runs its callback
Tick == \E i \in 1..Len(timers) : FadeInTick(i) \/ FadeOutTick(i)

\* setInterval keeps running callbacks while a timer is left that is not cleared
FairSpec == Spec /\ WF_vars(Tick)

----------------------------------------------------------------------------
(* Full-length fades: fadeIn towards 1 and fadeOut towards 0 on single nodes, from   *)
(* opacity 0 (unset or stored) or 1                                                  *)

FullOpacities == {Unset, 0, One}
FullInTargets == {One, One + 4}
FullOutTargets == {-2, 0}

InitFull ==
    /\ doc = FadeDoc
    /\ \E cl \in {<<>>, <<HiddenClass>>} :
          classList = [n \in Nodes |-> IF n \in FadeNodes THEN cl ELSE <<>>]
    /\ \E o \in FullOpacities :
          opacity = [n \in Nodes |-> IF n \in FadeNodes THEN o ELSE Unset]
    /\ timers = <<>>
    /\ call = NoCall
    /\ ret = Undefined
    /\ invoked = <<>>

NextFull ==
    \/ \E n \in FadeNodes, toOpacity \in FullInTargets :
          Len(timers) < MaxFull /\ FadeIn(NodeTarget(n), toOpacity)
    \/ \E n \in FadeNodes, toOpacity \in FullOutTargets :
          Len(timers) < MaxFull /\ FadeOut(NodeTarget(n), toOpacity)
    \/ \E i \in 1..MaxFull : FadeInTick(i)
    \/ \E i \in 1..MaxFull : FadeOutTick(i)

SpecFull == InitFull /\ [][NextFull]_vars

FairSpecFull == SpecFull /\ WF_vars(Tick)

----------------------------------------------------------------------------
(* Properties of the fades *)

Stored(n) == parseOpacity(opacity[n])
Ticked(t) == t.opacity # t.start
Hidden(cls, n) == Has(cls[n], HiddenClass)
\* timer i is the only fade ever started on its node
Solo(i) == \A j \in 1..Len(timers) : j # i => timers[j].node # timers[i].node

\* timer i exists and meets the description
Started(i, kind, starts, toOpacities) ==
    IF i <= Len(timers)
    THEN /\ timers[i].kind = kind
         /\ timers[i].start \in starts
         /\ timers[i].toOpacity \in toOpacities
    ELSE FALSE
\* timer i has been cleared and its signal resolved once
Settled(i) ==
    IF i <= Len(timers) THEN ~timers[i].active /\ timers[i].resolved = 1 ELSE FALSE

C2_FadeInSettles ==
    /\ \A i \in 1..MaxFull :
          [](Started(i, "fadeIn", {0}, {One}) => <>Settled(i))
    /\ [][\A i \in 1..Len(timers) :
            (/\ timers[i].kind = "fadeIn"
             /\ timers[i].toOpacity = One
             /\ Ticked(timers[i])
             /\ Solo(i)
             /\ timers[i].active /\ ~timers'[i].active)
                => /\ Stored(timers[i].node)' >= timers[i].opacity
                   /\ Stored(timers[i].node)' <= One + Step
                   /\ ~Hidden(classList', timers[i].node)]_vars

C2_Witness ==
    \E i \in 1..Len(timers) :
        /\ timers[i].kind = "fadeIn"
        /\ timers[i].start = 0
        /\ timers[i].toOpacity = One
        /\ Solo(i)
        /\ ~timers[i].active
        /\ timers[i].opacity = One + Step
        /\ Stored(timers[i].node) = One
        /\ ~Hidden(classList, timers[i].node)

\* C3: a fade call on a target that is not a single node has created exactly one timer
\* per element elementMap visits, in order, none of them has ticked, and the promise it
\* returned is already resolved.
C3_CollectionFade ==
    call.op \in {"fadeIn", "fadeOut"} /\ ~call.single =>
        /\ ret.kind = "promise" /\ ret.resolved
        /\ Len(timers) = call.timersBefore + Len(call.args)
        /\ \A k \in 1..Len(call.args) :
              LET t == timers[call.timersBefore + k]
              IN  /\ t.node = call.args[k]
                  /\ t.kind = call.op
                  /\ t.active
                  /\ ~Ticked(t)
                  /\ t.resolved = 0

C3_Witness ==
    /\ call.op \in {"fadeIn", "fadeOut"}
    /\ ~call.single
    /\ Len(call.args) = 2
    /\ call.args[1] # call.args[2]
    /\ ret.resolved
    /\ \A k \in 1..2 : timers[call.timersBefore + k].active

\* C4: a timer's signal is resolved at most once, and it is resolved exactly when the
\* timer has been cleared.
C4_OneShot ==
    \A i \in 1..Len(timers) :
        /\ timers[i].resolved <= 1
        /\ timers[i].resolved = 1 <=> ~timers[i].active

C4_Witness ==
    \E i, j \in 1..Len(timers) :
        /\ timers[i].kind = "fadeIn" /\ timers[j].kind = "fadeOut"
        /\ timers[i].resolved = 1 /\ timers[j].resolved = 1
        /\ Ticked(timers[i]) /\ Ticked(timers[j])

\* C8: when a timer writes a node's opacity, no other running timer has written that
\* node's opacity.
C8_SingleWriter ==
    [][\A i, j \in 1..Len(timers) :
          (/\ i # j
           /\ timers'[i].opacity # timers[i].opacity
           /\ timers'[i].active)
              => ~(/\ timers[j].node = timers[i].node
                   /\ timers[j].active
                   /\ Ticked(timers[j]))]_vars

\* C9: while a fadeIn timer runs on a node the stored opacity never decreases, while a
\* fadeOut timer runs it never increases, it stays within [0, 1], and a timer is
\* cleared once.
C9_Monotonic ==
    [][\A i \in 1..Len(timers) :
          LET n == timers[i].node
          IN  /\ timers[i].active /\ timers[i].kind = "fadeIn"
                    => Stored(n)' >= Stored(n)
              /\ timers[i].active /\ timers[i].kind = "fadeOut"
                    => Stored(n)' <= Stored(n)
              /\ Stored(n)' >= 0 /\ Stored(n)' <= One
              /\ ~timers[i].active => ~timers'[i].active]_vars

\* C10: a tick that goes on stores the timer's opacity, which is not past the clamped
\* target (itself within [0, 1]); the tick that settles a timer leaves the stored
\* opacity alone; a timer that starts past its target settles on its first tick; and
\* nothing but a tick that goes on changes a stored opacity.
C10_NoWritePastTarget ==
    [][/\ \A i \in 1..Len(timers) :
            LET t == timers[i]
                u == timers'[i]
                n == t.node
            IN  u.opacity # t.opacity =>
                  /\ t.toOpacity >= 0 /\ t.toOpacity <= One
                  /\ u.active =>
                        /\ opacity'[n] = u.opacity
                        /\ t.kind = "fadeIn" => opacity'[n] <= t.toOpacity
                        /\ t.kind = "fadeOut" => opacity'[n] >= t.toOpacity
                  /\ ~u.active => opacity' = opacity
                  /\ (/\ ~Ticked(t)
                      /\ \/ t.kind = "fadeIn" /\ t.start > t.toOpacity
                         \/ t.kind = "fadeOut" /\ t.start < t.toOpacity)
                        => ~u.active /\ opacity' = opacity
       /\ opacity' # opacity =>
            \E i \in 1..Len(timers) :
                timers'[i].opacity # timers[i].opacity /\ timers'[i].active]_vars

C10_Witness ==
    \E i, j \in 1..Len(timers) :
        /\ timers[i].kind = "fadeIn" /\ timers[j].kind = "fadeOut"
        /\ timers[i].start > timers[i].toOpacity
        /\ ~timers[i].active
        /\ timers[j].start > timers[j].toOpacity + Step
        /\ ~timers[j].active
        /\ timers[j].node # timers[i].node
        /\ opacity[timers[j].node] # Unset
        /\ opacity[timers[j].node] - timers[j].opacity = Step

----------------------------------------------------------------------------
(* Visibility alone: any class lists to start from, hide and show on any target *)

RECURSIVE Distinct(_)
Distinct(q) ==
    IF q = <<>> THEN TRUE ELSE ~Has(Tail(q), Head(q)) /\ Distinct(Tail(q))

ClassLists == {q \in UNION {[1..k -> Classes] : k \in 0..Cardinality(Classes)} : Distinct(q)}

InitVisibility ==
    /\ doc = FadeDoc
    /\ classList \in [Nodes -> ClassLists]
    /\ opacity = [n \in Nodes |-> Unset]
    /\ timers = <<>>
    /\ call = NoCall
    /\ ret = Undefined
    /\ invoked = <<>>

NextVisibility ==
    \/ \E element \in Targets : Hide(element)
    \/ \E element \in Targets : Show(element)

SpecVisibility == InitVisibility /\ [][NextVisibility]_vars

InSeq(q, x) == \E k \in 1..Len(q) : q[k] = x

\* C6: a hide leaves every node it resolves to with the hidden class and a show leaves
\* it without; a node that already was so keeps its class list; every other class and
\* every other node is untouched; neither call throws.
C6_HideShow ==
    [][\A n \in Nodes :
          LET targeted == InSeq(elementMapArgs(doc, call'.target), n)
          IN  /\ call'.op \in {"hide", "show"} /\ ret'.kind = "undefined"
              /\ targeted /\ call'.op = "hide" =>
                    /\ Hidden(classList', n)
                    /\ Hidden(classList, n) => classList'[n] = classList[n]
              /\ targeted /\ call'.op = "show" =>
                    /\ ~Hidden(classList', n)
                    /\ ~Hidden(classList, n) => classList'[n] = classList[n]
              /\ ~targeted => classList'[n] = classList[n]
              /\ \A c \in Classes \ {HiddenClass} :
                    Has(classList'[n], c) <=> Has(classList[n], c)]_vars

C6_Witness ==
    /\ call.op = "show"
    /\ call.target = IterableTarget(<<1, 2>>)
    /\ classList[1] = <<"box">>
    /\ classList[2] = <<>>
    /\ Hidden(classList, 3)

----------------------------------------------------------------------------
(* Queries, template loading and elementMap over any document *)

Value(v) == [kind |-> "value", value |-> v]

\* new Error(`The "${selector}" element was not found`), as the template's parts
NotFound(selector) ==
    [kind |-> "throw",
     name |-> "Error",
     message |-> <<"The \"", selector, "\" element was not found">>]

\* a get that hands the null on
getUnchecked(d, selector, fromElement) == Value(find(d, selector, fromElement))

\* what get returns or throws
get(d, selector, fromElement) ==
    LET element == find(d, selector, fromElement)
    IN  IF element = Null THEN NotFound(selector) ELSE Value(element)

IsSub(token) == "sub" \in DOMAIN token

RECURSIVE Concat(_, _)
Concat(str, params) ==
    IF str = <<>> THEN ""
    ELSE (IF IsSub(Head(str)) THEN params[Head(str).sub] ELSE Head(str).lit)
            \o Concat(Tail(str), params)

\* what interpolate returns or throws: a ${name} that is no parameter is a ReferenceError
interpolate(str, params) ==
    IF \E k \in 1..Len(str) : IsSub(str[k]) /\ str[k].sub \notin DOMAIN params
    THEN [kind |-> "throw", name |-> "ReferenceError", message |-> <<>>]
    ELSE Value(Concat(str, params))

\* what loadTemplate returns or throws
loadTemplate(d, id, params) ==
    LET template == get(d, "#" \o id, Body)
    IN  IF template.kind = "throw" THEN template
        ELSE interpolate(d[template.value.node].html, params)

Callbacks == {"node", "tag"}
Apply(callback, d, n) == IF callback = "tag" THEN d[n].tag ELSE n

Find(selector, fromElement) ==
    /\ call' = [op |-> "find", selector |-> selector, fromElement |-> fromElement]
    /\ ret' = Value(find(doc, selector, fromElement))
    /\ invoked' = <<>>
    /\ UNCHANGED <<doc, classList, opacity, timers>>

FindAll(selector, fromElement) ==
    /\ call' = [op |-> "findAll", selector |-> selector, fromElement |-> fromElement]
    /\ ret' = Value(findAll(doc, selector, fromElement))
    /\ invoked' = <<>>
    /\ UNCHANGED <<doc, classList, opacity, timers>>

Get(selector, fromElement) ==
    /\ call' = [op |-> "get", selector |-> selector, fromElement |-> fromElement]
    /\ ret' = get(doc, selector, fromElement)
    /\ invoked' = <<>>
    /\ UNCHANGED <<doc, classList, opacity, timers>>

LoadTemplate(id, params) ==
    /\ call' = [op |-> "loadTemplate", id |-> id, params |-> params]
    /\ ret' = loadTemplate(doc, id, params)
    /\ invoked' = <<>>
    /\ UNCHANGED <<doc, classList, opacity, timers>>

ElementMap(elements, callback) ==
    LET Callback == [n \in Nodes |-> Apply(callback, doc, n)]
    IN  /\ call' = [op |-> "elementMap", target |-> elements, callback |-> callback]
        /\ invoked' = elementMapArgs(doc, elements)
        /\ ret' = Value(elementMap(doc, elements, Callback))
        /\ UNCHANGED <<doc, classList, opacity, timers>>

\* the nodes up from n, the body excluded
RECURSIVE Ancestors(_, _)
Ancestors(d, n) ==
    IF d[n].parent \in Nodes /\ d[n].parent < n
    THEN {d[n].parent} \cup Ancestors(d, d[n].parent)
    ELSE {}

\* the node numbers are the document order of a tree rooted at the body
IsDocument(d) ==
    \A n \in Nodes :
        /\ d[n].parent < n
        /\ n > 1 => d[n].parent \in {Body, n - 1} \cup Ancestors(d, n - 1)
        /\ d[n].id = IF d[n].tag = "template" THEN "t1" ELSE ""

Docs ==
    {d \in [Nodes -> [parent : {Body} \cup Nodes, tag : Tags, id : Ids, html : Htmls]] :
        /\ IsDocument(d)
        /\ \A n \in Nodes : d[n].html = d[1].html}

InitQuery ==
    /\ doc \in Docs
    /\ classList = [n \in Nodes |-> <<>>]
    /\ opacity = [n \in Nodes |-> Unset]
    /\ timers = <<>>
    /\ call = NoCall
    /\ ret = Undefined
    /\ invoked = <<>>

Scopes == {Body} \cup Nodes
TemplateIds == {"t1", "t2"}

NextQuery ==
    \/ \E selector \in Selectors, fromElement \in Scopes : Find(selector, fromElement)
    \/ \E selector \in Selectors, fromElement \in Scopes : FindAll(selector, fromElement)
    \/ \E selector \in Selectors, fromElement \in Scopes : Get(selector, fromElement)
    \/ \E id \in TemplateIds, params \in ParamSets : LoadTemplate(id, params)
    \/ \E elements \in Targets, callback \in Callbacks : ElementMap(elements, callback)

SpecQuery == InitQuery /\ [][NextQuery]_vars

----------------------------------------------------------------------------
(* Properties of the queries *)

\* the nodes under scope that the selector matches
MatchSet(selector, scope) ==
    {n \in Nodes : IsDescendant(doc, n, scope) /\ Matches(doc, selector, n)}

\* n comes first, in document order, among the nodes of set
First(n, set) ==
    /\ n \in set
    /\ \A k, l \in 1..Len(NodeOrder) : NodeOrder[k] = n /\ NodeOrder[l] \in set => k <= l

\* C5: elementMap has invoked the callback once per element of the normalised sequence,
\* in order, and returned the results in that order: the node itself for a single node,
\* the matches under the body in document order for a selector, the items as given for
\* an iterable, nothing for anything else.
C5_ElementMap ==
    call.op = "elementMap" =>
        /\ ret.kind = "value"
        /\ Len(ret.value) = Len(invoked)
        /\ \A k \in 1..Len(invoked) : ret.value[k] = Apply(call.callback, doc, invoked[k])
        /\ call.target.type = "node" => invoked = <<call.target.node>>
        /\ call.target.type = "selector" =>
              /\ \A k \in 1..Len(invoked) : invoked[k] \in MatchSet(call.target.selector, Body)
              /\ \A n \in MatchSet(call.target.selector, Body) : InSeq(invoked, n)
              /\ \A k, l \in 1..Len(invoked) :
                    k < l => \E a, b \in 1..Len(NodeOrder) :
                                /\ a < b
                                /\ NodeOrder[a] = invoked[k]
                                /\ NodeOrder[b] = invoked[l]
        /\ call.target.type = "iterable" => invoked = call.target.items
        /\ call.target.type = "other" => invoked = <<>>

C5_Witness ==
    /\ call.op = "elementMap"
    /\ call.target = SelectorTarget("div")
    /\ call.callback = "tag"
    /\ invoked = <<1, 2, 3>>
    /\ ret = Value(<<"div", "div", "div">>)

\* C7: with a match under the scope, find and get return the first match in document
\* order; with none, find returns null and get throws an error whose message holds the
\* selector; loadTemplate throws that error for "#" and the id when no node has the id.
C7_FindGet ==
    /\ call.op \in {"find", "get"} =>
          LET set == MatchSet(call.selector, call.fromElement)
          IN  /\ set # {} =>
                    /\ ret.kind = "value"
                    /\ ret.value.type = "node"
                    /\ First(ret.value.node, set)
              /\ set = {} /\ call.op = "find" => ret = Value(Null)
              /\ set = {} /\ call.op = "get" =>
                    /\ ret.kind = "throw"
                    /\ ret.name = "Error"
                    /\ InSeq(ret.message, call.selector)
    /\ call.op = "loadTemplate" /\ MatchSet("#" \o call.id, Body) = {} =>
          /\ ret.kind = "throw"
          /\ ret.name = "Error"
          /\ InSeq(ret.message, "#" \o call.id)

C7_Witness ==
    /\ call.op = "get"
    /\ call.fromElement \in Nodes
    /\ MatchSet(call.selector, call.fromElement) = {}
    /\ MatchSet(call.selector, Body) # {}
    /\ ret.kind = "throw"

====
